---- MODULE Spec2Model ----
(***************************************************************************)
(* ChronoCalc: the date calculator page (Home) and the calendar arithmetic *)
(* its handlers call.  The handlers of src/unnamed/part_002 call the       *)
(* date-fns functions addDays, subDays, differenceInDays,                  *)
(* differenceInWeeks, differenceInMonths, differenceInYears, addMonths     *)
(* (through subMonths/addYears/subYears) on JavaScript Date values; the    *)
(* operators below compute what those calls compute, step by step, on      *)
(* local calendar fields as the JavaScript Date setters do (setDate and    *)
(* setMonth carry an out-of-range day or month into the next month/year).  *)
(*                                                                         *)
(* A Date is the record of its local fields: year, month (0..11, as        *)
(* getMonth), date (day of month, as getDate) and hours (time of day).     *)
(* Dates typed into a DateInput or picked in the calendar are at local     *)
(* midnight (hours = 0).                                                   *)
(*                                                                         *)
(* Four specifications share the variables.   Spec is the Home page: the   *)
(* four forms, the clock, and the submit handlers run on data their        *)
(* schemas accept.  EngineSpec applies the handlers' computations to a     *)
(* date and an offset, to two dates, to a date of birth and a current      *)
(* date, or to the data of the due date form, drawn from the input         *)
(* domains without the forms' validation, so that negative offsets,        *)
(* reversed date pairs and data the schemas reject are covered.            *)
(* DateInputSpec is the DateInput component of src/unnamed/part_001: the   *)
(* text typed into it, parsed and formatted character by character.        *)
(* PageSpec is the due date form of src/src/app/page.tsx, the page with    *)
(* the LMP and conception methods only.                                    *)
(***************************************************************************)
EXTENDS Integers, Sequences, FiniteSets, TLC

(***************************************************************************)
(* Bounds of the model.                                                    *)
(***************************************************************************)
\* |n| of the day/month/year offsets drawn around zero
MaxN == 3
\* every anchor year is taken together with the YearSpan years after it
YearSpan == 1
\* the largest number entered in the days field
MaxDays == 1
\* the twelve-hour steps the clock advances while the page is open
MaxTicks == 1

(***************************************************************************)
(* JavaScript Date arithmetic (ECMAScript MakeDay / YearFromTime).         *)
(***************************************************************************)
\* undefined and null where a Date, a number or a result object may stand,
\* and where one of the strings of an enum may stand
Undefined == [undefined |-> TRUE]

Null == [null |-> TRUE]

UndefinedEnum == "undefined"

NullEnum == "null"

\* a number where undefined may stand too
Num(n) == [number |-> n]

\* the number n + 1/2 (a number that is not an integer); number is its
\* integer part, which is what Math.trunc and a comparison with an integer
\* bound from below see of it for n >= 0
Half(n) == [number |-> n, half |-> TRUE]

\* Number.isInteger
IsInteger(v) == DOMAIN v = {"number"}

Sign(x) == IF x > 0 THEN 1 ELSE IF x < 0 THEN -1 ELSE 0

Abs(x) == IF x < 0 THEN -x ELSE x

\* Math.trunc(x / k) for k > 0
Trunc(x, k) == IF x >= 0 THEN x \div k ELSE -((-x) \div k)

\* variant: every fourth year is a leap year (the Julian rule)
IsLeapYear_Julian(y) == y % 4 = 0

IsLeapYear(y) == (y % 4 = 0) /\ ((y % 100 # 0) \/ (y % 400 = 0))

DaysInMonth(y, m) ==
    IF m = 1 THEN (IF IsLeapYear(y) THEN 29 ELSE 28)
    ELSE IF m \in {3, 5, 8, 10} THEN 30 ELSE 31

\* number of days from 1970-01-01 to the first day of year y
DayFromYear(y) ==
    365 * (y - 1970) + ((y - 1969) \div 4) - ((y - 1901) \div 100)
        + ((y - 1601) \div 400)

RECURSIVE DaysBeforeMonth(_, _)
DaysBeforeMonth(y, m) ==
    IF m = 0 THEN 0 ELSE DaysBeforeMonth(y, m - 1) + DaysInMonth(y, m - 1)

\* MakeDay(year, month, date): month and date may be out of range
MakeDay(year, month, date) ==
    LET ym == year + (month \div 12)
        mn == month % 12
    IN  DayFromYear(ym) + DaysBeforeMonth(ym, mn) + date - 1

\* the local fields of day number dayNum, at time of day hours
DateFromDay(dayNum, hours) ==
    LET z   == dayNum + 719468
        era == z \div 146097
        doe == z - era * 146097
        yoe == (doe - (doe \div 1460) + (doe \div 36524) - (doe \div 146096)) \div 365
        doy == doe - (365 * yoe + (yoe \div 4) - (yoe \div 100))
        mp  == (5 * doy + 2) \div 153
        d   == doy - ((153 * mp + 2) \div 5) + 1
        m   == IF mp < 10 THEN mp + 2 ELSE mp - 10
        y   == yoe + era * 400 + (IF m <= 1 THEN 1 ELSE 0)
    IN  [year |-> y, month |-> m, date |-> d, hours |-> hours]

DayNumber(dt) == MakeDay(dt.year, dt.month, dt.date)

\* the Date a DateInput parses from MM/dd/yyyy text: year-month-day
\* (month 1..12) at local midnight
Ymd(year, month, day) == [year |-> year, month |-> month - 1, date |-> day, hours |-> 0]

\* the same date at a time of day
At(dt, hours) == [dt EXCEPT !.hours = hours]

\* Date.prototype.setDate / setMonth / setFullYear
SetDate(dt, date) == DateFromDay(MakeDay(dt.year, dt.month, date), dt.hours)

SetMonth(dt, month) == DateFromDay(MakeDay(dt.year, month, dt.date), dt.hours)

SetMonthDate(dt, month, date) == DateFromDay(MakeDay(dt.year, month, date), dt.hours)

SetFullYear(dt, year) == DateFromDay(MakeDay(year, dt.month, dt.date), dt.hours)

SetFullYearMonthDate(dt, year, month, date) ==
    DateFromDay(MakeDay(year, month, date), dt.hours)

\* getTime(), in hours
GetTime(dt) == DayNumber(dt) * 24 + dt.hours

(***************************************************************************)
(* date-fns, as called by the handlers.                                    *)
(***************************************************************************)
\* compareAsc(dateLeft, dateRight): the sign of the difference of getTime()
compareAsc(dateLeft, dateRight) == Sign(GetTime(dateLeft) - GetTime(dateRight))

\* compareLocalAsc of differenceInDays: the first differing local field
compareLocalAsc(dateLeft, dateRight) ==
    IF dateLeft.year # dateRight.year THEN Sign(dateLeft.year - dateRight.year)
    ELSE IF dateLeft.month # dateRight.month THEN Sign(dateLeft.month - dateRight.month)
    ELSE IF dateLeft.date # dateRight.date THEN Sign(dateLeft.date - dateRight.date)
    ELSE Sign(dateLeft.hours - dateRight.hours)

\* the days between the two start-of-day instants
differenceInCalendarDays(dateLeft, dateRight) ==
    DayNumber(dateLeft) - DayNumber(dateRight)

differenceInCalendarMonths(dateLeft, dateRight) ==
    (dateLeft.year - dateRight.year) * 12 + (dateLeft.month - dateRight.month)

differenceInCalendarYears(dateLeft, dateRight) == dateLeft.year - dateRight.year

isLastDayOfMonth(dt) == dt.date = DaysInMonth(dt.year, dt.month)

\* variant: the day of the month stops at the ends of the month
addDays_NoCarry(dt, amount) ==
    LET target == dt.date + amount
        last == DaysInMonth(dt.year, dt.month)
    IN  [dt EXCEPT !.date = IF target > last THEN last
                            ELSE IF target < 1 THEN 1 ELSE target]

\* addDays(date, amount): setDate(getDate() + amount)
addDays(dt, amount) ==
    IF amount = 0 THEN dt ELSE SetDate(dt, dt.date + amount)

\* variant: the amount is not negated
subDays_NoNegate(dt, amount) == addDays(dt, amount)

\* subDays(date, amount) is addDays(date, -amount)
subDays(dt, amount) == addDays(dt, -amount)

\* variant: the native setMonth, which carries a day past the end of the
\* target month into the month after it
addMonths_Overflow(dt, amount) ==
    IF amount = 0 THEN dt ELSE SetMonth(dt, dt.month + amount)

\* addMonths(date, amount): the same day of the month amount months later,
\* or the last day of that month when it is shorter
addMonths(dt, amount) ==
    IF amount = 0 THEN dt
    ELSE LET dayOfMonth == dt.date
             endOfDesiredMonth == SetMonthDate(dt, dt.month + amount + 1, 0)
             daysInMonth == endOfDesiredMonth.date
         IN  IF dayOfMonth >= daysInMonth THEN endOfDesiredMonth
             ELSE SetFullYearMonthDate(dt, endOfDesiredMonth.year,
                                       endOfDesiredMonth.month, dayOfMonth)

subMonths(dt, amount) == addMonths(dt, -amount)

addYears(dt, amount) == addMonths(dt, amount * 12)

subYears(dt, amount) == addYears(dt, -amount)

\* differenceInDays(dateLeft, dateRight): full days from dateRight to dateLeft
differenceInDays(dateLeft, dateRight) ==
    LET sign == compareLocalAsc(dateLeft, dateRight)
        difference == Abs(differenceInCalendarDays(dateLeft, dateRight))
        moved == SetDate(dateLeft, dateLeft.date - sign * difference)
        isLastDayNotFull == IF compareLocalAsc(moved, dateRight) = -sign THEN 1 ELSE 0
    IN  sign * (difference - isLastDayNotFull)

\* variant: Math.floor instead of Math.trunc
differenceInWeeks_Floor(dateLeft, dateRight) ==
    differenceInDays(dateLeft, dateRight) \div 7

\* differenceInWeeks(dateLeft, dateRight): Math.trunc(differenceInDays / 7)
differenceInWeeks(dateLeft, dateRight) ==
    Trunc(differenceInDays(dateLeft, dateRight), 7)

\* differenceInMonths(dateLeft, dateRight): full months
differenceInMonths(dateLeft, dateRight) ==
    LET sign == compareAsc(dateLeft, dateRight)
        difference == Abs(differenceInCalendarMonths(dateLeft, dateRight))
        \* end of February is raised to day 30 before the months are taken off
        raised == IF dateLeft.month = 1 /\ dateLeft.date > 27
                  THEN SetDate(dateLeft, 30) ELSE dateLeft
        moved == SetMonth(raised, raised.month - sign * difference)
        isLastMonthNotFull ==
            IF isLastDayOfMonth(dateLeft) /\ difference = 1
               /\ compareAsc(dateLeft, dateRight) = 1
            THEN FALSE
            ELSE compareAsc(moved, dateRight) = -sign
    IN  IF difference < 1 THEN 0
        ELSE sign * (difference - (IF isLastMonthNotFull THEN 1 ELSE 0))

\* variant: the difference of the calendar years alone
differenceInYears_CalendarOnly(dateLeft, dateRight) ==
    differenceInCalendarYears(dateLeft, dateRight)

\* differenceInYears(dateLeft, dateRight): full years; both dates are moved
\* to the leap year 1584 to compare month, day and time
differenceInYears(dateLeft, dateRight) ==
    LET sign == compareAsc(dateLeft, dateRight)
        difference == Abs(differenceInCalendarYears(dateLeft, dateRight))
        left1584 == SetFullYear(dateLeft, 1584)
        right1584 == SetFullYear(dateRight, 1584)
        isLastYearNotFull == IF compareAsc(left1584, right1584) = -sign THEN 1 ELSE 0
    IN  sign * (difference - isLastYearNotFull)

\* isBefore(date, dateToCompare)
isBefore(dt, dateToCompare) == GetTime(dt) < GetTime(dateToCompare)

\* add(date, {years, months, days}): the months first, then the days
add(dt, years, months, days) ==
    LET dateWithMonths == IF months # 0 \/ years # 0
                          THEN addMonths(dt, months + years * 12) ELSE dt
    IN  IF days # 0 THEN addDays(dateWithMonths, days) ELSE dateWithMonths

\* intervalToDuration({start, end}): years, then the months left after the
\* years, then the days left after the months; a field that is zero stands
\* for the absent field, which the page reads as 0 (field ?? 0)
intervalToDuration(start, end) ==
    LET years == differenceInYears(end, start)
        remainingMonths == add(start, years, 0, 0)
        months == differenceInMonths(end, remainingMonths)
        remainingDays == add(remainingMonths, 0, months, 0)
        days == differenceInDays(end, remainingDays)
    IN  [years |-> years, months |-> months, days |-> days]

(***************************************************************************)
(* The schemas the forms are validated with (zodResolver): a handler runs  *)
(* only on data its schema accepts.                                        *)
(***************************************************************************)
\* z.date(): a Date value (undefined is "required", anything else invalid)
IsDate(v) == v # Undefined

\* variant: the order of the two dates is not checked
dateDifferenceSchema_NoOrder(data) ==
    /\ IsDate(data.startDate)
    /\ IsDate(data.endDate)

\* dateDifferenceSchema: both dates given and endDate >= startDate
dateDifferenceSchema(data) ==
    /\ IsDate(data.startDate)
    /\ IsDate(data.endDate)
    /\ GetTime(data.endDate) >= GetTime(data.startDate)

\* variant: .int() is missing, any number >= 1 is accepted
dateArithmeticSchema_NoInt(data) ==
    /\ IsDate(data.baseDate)
    /\ data.operation \in {"add", "subtract"}
    /\ IF data.days = Undefined THEN TRUE ELSE data.days.number >= 1

\* dateArithmeticSchema: a date, an operation, and days absent or an
\* integer >= 1
dateArithmeticSchema(data) ==
    /\ IsDate(data.baseDate)
    /\ data.operation \in {"add", "subtract"}
    /\ IF data.days = Undefined THEN TRUE
       ELSE IsInteger(data.days) /\ data.days.number >= 1

\* ageFinderSchema: a date of birth not after the clock
ageFinderSchema(data, clock) ==
    /\ IsDate(data.dateOfBirth)
    /\ GetTime(data.dateOfBirth) <= GetTime(clock)

\* a reference date of the due date form: given, not in the future and not
\* before oldest
ReferenceDateOk(dt, clock, oldest) ==
    /\ IsDate(dt)
    /\ ~isBefore(clock, dt)
    /\ ~isBefore(dt, oldest)

\* variant: any embryo age is accepted, not only day3 and day5
pregnancyDueDateSchema_AnyEmbryoAge(data, clock) ==
    LET nineMonthsAgo == subMonths(clock, 9)
    IN  /\ data.calculationMethod \in {"lmp", "conception", "ivf"}
        /\ data.calculationMethod = "lmp" =>
               ReferenceDateOk(data.lastMenstrualPeriod, clock, subYears(clock, 2))
        /\ data.calculationMethod = "conception" =>
               ReferenceDateOk(data.conceptionDate, clock, nineMonthsAgo)
        /\ data.calculationMethod = "ivf" =>
               /\ ReferenceDateOk(data.ivfTransferDate, clock, nineMonthsAgo)
               /\ data.ivfEmbryoAge # UndefinedEnum

\* pregnancyDueDateSchema with its superRefine
pregnancyDueDateSchema(data, clock) ==
    LET nineMonthsAgo == subMonths(clock, 9)
    IN  /\ data.calculationMethod \in {"lmp", "conception", "ivf"}
        /\ data.ivfEmbryoAge \in {UndefinedEnum, "day3", "day5"}
        /\ data.calculationMethod = "lmp" =>
               ReferenceDateOk(data.lastMenstrualPeriod, clock, subYears(clock, 2))
        /\ data.calculationMethod = "conception" =>
               ReferenceDateOk(data.conceptionDate, clock, nineMonthsAgo)
        /\ data.calculationMethod = "ivf" =>
               /\ ReferenceDateOk(data.ivfTransferDate, clock, nineMonthsAgo)
               /\ data.ivfEmbryoAge # UndefinedEnum

(***************************************************************************)
(* The computations of the Home handlers (src/unnamed/part_002).           *)
(***************************************************************************)
\* variant: the offsets of the two embryo ages are exchanged
PregnancyDueDate_EmbryoAgesExchanged(data) ==
    IF data.calculationMethod = "lmp" /\ IsDate(data.lastMenstrualPeriod)
    THEN [date |-> addDays(data.lastMenstrualPeriod, 280),
          method |-> "LMP (Naegele's rule)"]
    ELSE IF data.calculationMethod = "conception" /\ IsDate(data.conceptionDate)
    THEN [date |-> addDays(data.conceptionDate, 266), method |-> "conception date"]
    ELSE IF data.calculationMethod = "ivf" /\ IsDate(data.ivfTransferDate)
            /\ data.ivfEmbryoAge # UndefinedEnum
    THEN [date |-> addDays(data.ivfTransferDate,
                           IF data.ivfEmbryoAge = "day3" THEN 261 ELSE 263),
          method |-> IF data.ivfEmbryoAge = "day3"
                     THEN "IVF transfer date (Day-3 embryo)"
                     ELSE "IVF transfer date (Day-5 embryo)"]
    ELSE Null

\* handlePregnancyDueDateSubmit: the due date and the method it names, or
\* Null when no branch applies
PregnancyDueDate(data) ==
    IF data.calculationMethod = "lmp" /\ IsDate(data.lastMenstrualPeriod)
    THEN [date |-> addDays(data.lastMenstrualPeriod, 280),
          method |-> "LMP (Naegele's rule)"]
    ELSE IF data.calculationMethod = "conception" /\ IsDate(data.conceptionDate)
    THEN [date |-> addDays(data.conceptionDate, 266), method |-> "conception date"]
    ELSE IF data.calculationMethod = "ivf" /\ IsDate(data.ivfTransferDate)
            /\ data.ivfEmbryoAge # UndefinedEnum
    THEN [date |-> addDays(data.ivfTransferDate,
                           IF data.ivfEmbryoAge = "day3" THEN 263 ELSE 261),
          method |-> IF data.ivfEmbryoAge = "day3"
                     THEN "IVF transfer date (Day-3 embryo)"
                     ELSE "IVF transfer date (Day-5 embryo)"]
    ELSE Null

\* handlePregnancyDueDateSubmit of src/app/page.tsx (no IVF method): the due
\* date, or Null
PagePregnancyDueDate(data) ==
    IF data.calculationMethod = "lmp" /\ IsDate(data.lastMenstrualPeriod)
    THEN addDays(data.lastMenstrualPeriod, 280)
    ELSE IF data.calculationMethod = "conception" /\ IsDate(data.conceptionDate)
    THEN addDays(data.conceptionDate, 266)
    ELSE Null

\* the older handlePregnancyDueDateSubmit kept in src/app/layout.tsx: the
\* last menstrual period plus 1 year, minus 3 months, plus 7 days
LayoutPregnancyDueDate(data) ==
    IF data.calculationMethod = "lmp" /\ IsDate(data.lastMenstrualPeriod)
    THEN addDays(subMonths(addYears(data.lastMenstrualPeriod, 1), 3), 7)
    ELSE IF data.calculationMethod = "conception" /\ IsDate(data.conceptionDate)
    THEN addDays(data.conceptionDate, 266)
    ELSE Null

\* variant: magnitudes, whatever the order of the two dates
DateDifference_Magnitude(startDate, endDate) ==
    [days   |-> Abs(differenceInDays(endDate, startDate)),
     weeks  |-> Abs(differenceInWeeks(endDate, startDate)),
     months |-> Abs(differenceInMonths(endDate, startDate)),
     years  |-> Abs(differenceInYears(endDate, startDate))]

\* variant: the days are counted inclusively (both end days)
DateDifference_Inclusive(startDate, endDate) ==
    [days   |-> differenceInDays(endDate, startDate) + 1,
     weeks  |-> differenceInWeeks(endDate, startDate),
     months |-> differenceInMonths(endDate, startDate),
     years  |-> differenceInYears(endDate, startDate)]

\* variant: a breakdown, each field what the larger units leave over
DateDifference_Breakdown(startDate, endDate) ==
    LET years == differenceInYears(endDate, startDate)
        afterYears == addYears(startDate, years)
        months == differenceInMonths(endDate, afterYears)
        afterMonths == addMonths(afterYears, months)
        days == differenceInDays(endDate, afterMonths)
    IN  [days   |-> days % 7,
         weeks  |-> days \div 7,
         months |-> months,
         years  |-> years]

\* handleDateDifferenceSubmit: the four fields, each computed on its own
DateDifference(startDate, endDate) ==
    [days   |-> differenceInDays(endDate, startDate),
     weeks  |-> differenceInWeeks(endDate, startDate),
     months |-> differenceInMonths(endDate, startDate),
     years  |-> differenceInYears(endDate, startDate)]

\* variant: the operation is ignored and the days are always added
ArithmeticResultDate_AlwaysAdd(baseDate, days, operation) == addDays(baseDate, days)

\* handleDateArithmeticSubmit: the result date of the chosen operation
ArithmeticResultDate(baseDate, days, operation) ==
    IF operation = "add" THEN addDays(baseDate, days) ELSE subDays(baseDate, days)

(***************************************************************************)
(* Input domains.                                                          *)
(***************************************************************************)
AnchorYears == {1900, 2000, 2024, 2100}

Years == UNION {y .. (y + YearSpan) : y \in AnchorYears}

DaysOfMonth == {1, 28, 29, 30, 31}

\* the valid calendar dates of the domain, at local midnight
Dates ==
    {[year |-> t[1], month |-> t[2], date |-> t[3], hours |-> 0] : t \in
        {u \in Years \X (0 .. 11) \X DaysOfMonth : u[3] <= DaysInMonth(u[1], u[2])}}

LongOffsets == {59, 60, 280, 365, 366, 400}

Offsets == (-MaxN .. MaxN) \cup LongOffsets \cup {-n : n \in LongOffsets}

\* the clock when the page is loaded, and the bound of its advance
ClockStart == At(Ymd(2024, 2, 29), 12)

\* the dates entered in the forms of the page
FormDates == {Ymd(2024, 1, 31), Ymd(2024, 3, 1)}

BaseDates == {Ymd(2024, 2, 29)}

BirthDates == {Ymd(2000, 2, 29), Ymd(2024, 3, 1)}

\* the values of new Date() on the days of the year the page is loaded in:
\* at midnight and at noon
AsOfDates == {At(d, h) : d \in {x \in Dates : x.year = ClockStart.year}, h \in {0, 12}}

ReferenceDates == {Ymd(2024, 1, 31)}

\* the data passed to the due date handlers: the methods and embryo ages
\* of the schema, and one value of each that the schema does not know
MethodInputs == {"lmp", "conception", "ivf", "ovulation"}

EmbryoAgeInputs == {UndefinedEnum, "day3", "day5", "day6"}

\* the form data of a method: the reference date in the field of the method
\* (in every date field for a method the form does not have)
DueDateData(method, embryoAge, dt) ==
    [calculationMethod |-> method,
     lastMenstrualPeriod |-> IF method \in {"lmp", "ovulation"} THEN dt ELSE Undefined,
     conceptionDate |-> IF method \in {"conception", "ovulation"} THEN dt ELSE Undefined,
     ivfTransferDate |-> IF method \in {"ivf", "ovulation"} THEN dt ELSE Undefined,
     ivfEmbryoAge |-> embryoAge]

\* the numbers entered in the days field: negative, zero, positive, and
\* one that is not an integer (1.5)
DayInputs == {Num(n) : n \in -1 .. MaxDays} \cup {Half(1)}

\* the calendar functions applied to drawn inputs
VARIABLES mode, argA, argB, argN, op, out

\* the forms of the Home page (react-hook-form values; isValid of the age
\* form is its formState.isValid, the outcome of its last validation)
VARIABLES dateDifferenceForm, dateArithmeticForm, ageFinderForm, pregnancyDueDateForm

\* the state of the Home page (useState), and the clock (new Date())
VARIABLES dateDifferenceResult, arithmeticResult, arithmeticOperation, ageResult,
          pregnancyDueDateResult, currentDate, now

\* the state of the DateInput of the start date (useState)
VARIABLES inputValue, isPopoverOpen

engineVars == <<mode, argA, argB, argN, op, out>>

inputVars == <<inputValue, isPopoverOpen>>

formVars == <<dateDifferenceForm, dateArithmeticForm, ageFinderForm, pregnancyDueDateForm>>

resultVars == <<dateDifferenceResult, arithmeticResult, arithmeticOperation, ageResult,
                pregnancyDueDateResult>>

vars == <<engineVars, inputVars, formVars, resultVars, currentDate, now>>

(***************************************************************************)
(* The Home page (src/unnamed/part_002).                                   *)
(***************************************************************************)
\* the forms' defaultValues, the clock, and the DateInput's initial state
HomeFormsInit ==
    /\ dateDifferenceForm = [startDate |-> Undefined, endDate |-> Undefined]
    /\ dateArithmeticForm = [baseDate |-> Undefined, operation |-> "add", days |-> Undefined]
    /\ ageFinderForm = [dateOfBirth |-> Undefined, isValid |-> FALSE]
    /\ pregnancyDueDateForm =
          [calculationMethod |-> "lmp", lastMenstrualPeriod |-> Undefined,
           conceptionDate |-> Undefined, ivfTransferDate |-> Undefined,
           ivfEmbryoAge |-> UndefinedEnum]
    /\ now = ClockStart
    /\ inputValue = <<>>
    /\ isPopoverOpen = FALSE

\* the results' initial null
NoResults ==
    /\ dateDifferenceResult = Null
    /\ arithmeticResult = Null
    /\ arithmeticOperation = NullEnum
    /\ ageResult = Null
    /\ pregnancyDueDateResult = Null

\* the page before its mount effect has run: currentDate is null
HomeInit == HomeFormsInit /\ NoResults /\ currentDate = Null

Init ==
    /\ HomeInit
    /\ mode = "page"
    /\ argA = Null /\ argB = Null /\ argN = 0
    /\ op = "none" /\ out = Null

\* the effect run on mount: setCurrentDate(new Date())
Mount ==
    /\ currentDate = Null
    /\ currentDate' = now
    /\ UNCHANGED <<engineVars, inputVars, formVars, resultVars, now>>

\* the user acts on the page once it is mounted
Mounted == mode = "page" /\ currentDate # Null

\* time passes while the page is open, twelve hours at a step
Tick ==
    /\ Mounted
    /\ GetTime(now) < GetTime(ClockStart) + 12 * MaxTicks
    /\ now' = (IF now.hours = 0 THEN At(now, 12) ELSE At(addDays(now, 1), 0))
    /\ UNCHANGED <<engineVars, inputVars, formVars, resultVars, currentDate>>

\* field.onChange of a form field
ChangeField(form, field, value) ==
    /\ Mounted
    /\ form' = [form EXCEPT ![field] = value]

ChangeStartDate ==
    /\ \E v \in FormDates \cup {Undefined} :
          ChangeField(dateDifferenceForm, "startDate", v)
    /\ UNCHANGED <<engineVars, inputVars, dateArithmeticForm, ageFinderForm, pregnancyDueDateForm,
                   resultVars, currentDate, now>>

ChangeEndDate ==
    /\ \E v \in FormDates \cup {Undefined} :
          ChangeField(dateDifferenceForm, "endDate", v)
    /\ UNCHANGED <<engineVars, inputVars, dateArithmeticForm, ageFinderForm, pregnancyDueDateForm,
                   resultVars, currentDate, now>>

ChangeBaseDate ==
    /\ \E v \in BaseDates \cup {Undefined} :
          ChangeField(dateArithmeticForm, "baseDate", v)
    /\ UNCHANGED <<engineVars, inputVars, dateDifferenceForm, ageFinderForm, pregnancyDueDateForm,
                   resultVars, currentDate, now>>

ChangeOperation ==
    /\ \E v \in {"add", "subtract"} : ChangeField(dateArithmeticForm, "operation", v)
    /\ UNCHANGED <<engineVars, inputVars, dateDifferenceForm, ageFinderForm, pregnancyDueDateForm,
                   resultVars, currentDate, now>>

\* the days input (type="number"): '' (also what a text that is no number
\* gives) becomes undefined, anything else the number typed
ChangeDays ==
    /\ \E v \in DayInputs \cup {Undefined} : ChangeField(dateArithmeticForm, "days", v)
    /\ UNCHANGED <<engineVars, inputVars, dateDifferenceForm, ageFinderForm, pregnancyDueDateForm,
                   resultVars, currentDate, now>>

\* mode 'onChange': the change validates the form against the clock of the
\* change, and formState.isValid keeps the outcome
ChangeDateOfBirth ==
    /\ Mounted
    /\ \E v \in BirthDates \cup {Undefined} :
          ageFinderForm' =
              [dateOfBirth |-> v, isValid |-> ageFinderSchema([dateOfBirth |-> v], now)]
    /\ UNCHANGED <<engineVars, inputVars, dateDifferenceForm, dateArithmeticForm,
                   pregnancyDueDateForm, resultVars, currentDate, now>>

\* the date field shown for the selected method, and the embryo age select
ChangeReferenceDate ==
    /\ \E v \in ReferenceDates \cup {Undefined} :
          ChangeField(pregnancyDueDateForm,
                      CASE pregnancyDueDateForm.calculationMethod = "lmp" -> "lastMenstrualPeriod"
                        [] pregnancyDueDateForm.calculationMethod = "conception" -> "conceptionDate"
                        [] OTHER -> "ivfTransferDate",
                      v)
    /\ UNCHANGED <<engineVars, inputVars, dateDifferenceForm, dateArithmeticForm, ageFinderForm,
                   resultVars, currentDate, now>>

ChangeEmbryoAge ==
    /\ pregnancyDueDateForm.calculationMethod = "ivf"
    /\ \E v \in {"day3", "day5"} : ChangeField(pregnancyDueDateForm, "ivfEmbryoAge", v)
    /\ UNCHANGED <<engineVars, inputVars, dateDifferenceForm, dateArithmeticForm, ageFinderForm,
                   resultVars, currentDate, now>>

\* variant: only the method of the form is changed
ChangeCalculationMethod_KeepsFields ==
    /\ \E value \in {"lmp", "conception", "ivf"} :
          ChangeField(pregnancyDueDateForm, "calculationMethod", value)
    /\ UNCHANGED <<engineVars, inputVars, dateDifferenceForm, dateArithmeticForm, ageFinderForm,
                   resultVars, currentDate, now>>

\* RadioGroup.onValueChange: the form is reset to the new method and the
\* due date result is cleared
ChangeCalculationMethod ==
    /\ Mounted
    /\ \E value \in {"lmp", "conception", "ivf"} :
          pregnancyDueDateForm' =
              [calculationMethod |-> value, lastMenstrualPeriod |-> Undefined,
               conceptionDate |-> Undefined, ivfTransferDate |-> Undefined,
               ivfEmbryoAge |-> UndefinedEnum]
    /\ pregnancyDueDateResult' = Null
    /\ UNCHANGED <<engineVars, inputVars, dateDifferenceForm, dateArithmeticForm, ageFinderForm,
                   dateDifferenceResult, arithmeticResult, arithmeticOperation, ageResult,
                   currentDate, now>>

\* handleSubmit(handleDateDifferenceSubmit): the handler runs on valid data
HandleDateDifferenceSubmit ==
    /\ Mounted
    /\ dateDifferenceSchema(dateDifferenceForm)
    /\ dateDifferenceResult' =
          DateDifference(dateDifferenceForm.startDate, dateDifferenceForm.endDate)
    /\ arithmeticResult' = Null
    /\ arithmeticOperation' = NullEnum
    /\ ageResult' = Null
    /\ pregnancyDueDateResult' = Null
    /\ UNCHANGED <<engineVars, inputVars, formVars, currentDate, now>>

\* handleSubmit(handleDateArithmeticSubmit)
HandleDateArithmeticSubmit ==
    /\ Mounted
    /\ dateArithmeticSchema(dateArithmeticForm)
    /\ IF (IF dateArithmeticForm.days = Undefined THEN FALSE
           ELSE dateArithmeticForm.days.number >= 1)
       THEN /\ arithmeticResult' =
                  ArithmeticResultDate(dateArithmeticForm.baseDate,
                                       dateArithmeticForm.days.number,
                                       dateArithmeticForm.operation)
            /\ arithmeticOperation' = dateArithmeticForm.operation
            /\ dateDifferenceResult' = Null
            /\ ageResult' = Null
            /\ pregnancyDueDateResult' = Null
       ELSE /\ arithmeticResult' = Null
            /\ arithmeticOperation' = NullEnum
            /\ UNCHANGED <<dateDifferenceResult, ageResult, pregnancyDueDateResult>>
    /\ UNCHANGED <<engineVars, inputVars, formVars, currentDate, now>>

\* variant: the age handler leaves the other results as they are
HandleAgeFinderSubmit_KeepsOthers ==
    /\ Mounted
    /\ ageFinderForm.isValid
    /\ ageFinderSchema(ageFinderForm, now)
    /\ ageResult' = intervalToDuration(ageFinderForm.dateOfBirth, currentDate)
    /\ UNCHANGED <<dateDifferenceResult, arithmeticResult, arithmeticOperation,
                   pregnancyDueDateResult>>
    /\ UNCHANGED <<engineVars, inputVars, formVars, currentDate, now>>

\* the submit button is enabled by formState.isValid (the last validation);
\* handleSubmit(handleAgeFinderSubmit) validates again: the schema reads the
\* clock, the handler the date captured on mount
HandleAgeFinderSubmit ==
    /\ Mounted
    /\ ageFinderForm.isValid
    /\ ageFinderSchema(ageFinderForm, now)
    /\ ageResult' = intervalToDuration(ageFinderForm.dateOfBirth, currentDate)
    /\ dateDifferenceResult' = Null
    /\ arithmeticResult' = Null
    /\ arithmeticOperation' = NullEnum
    /\ pregnancyDueDateResult' = Null
    /\ UNCHANGED <<engineVars, inputVars, formVars, currentDate, now>>

\* handleSubmit(handlePregnancyDueDateSubmit).  The button's
\* formState.isValid is the schema at the last change of the form; for the
\* dates of ReferenceDates the schema gives the same at every clock of the
\* page, so it is the schema at the clock of the submit
HandlePregnancyDueDateSubmit ==
    /\ Mounted
    /\ pregnancyDueDateSchema(pregnancyDueDateForm, now)
    /\ pregnancyDueDateResult' = PregnancyDueDate(pregnancyDueDateForm)
    /\ dateDifferenceResult' = Null
    /\ arithmeticResult' = Null
    /\ arithmeticOperation' = NullEnum
    /\ ageResult' = Null
    /\ UNCHANGED <<engineVars, inputVars, formVars, currentDate, now>>

Next ==
    \/ Mount
    \/ Tick
    \/ ChangeStartDate
    \/ ChangeEndDate
    \/ ChangeBaseDate
    \/ ChangeOperation
    \/ ChangeDays
    \/ ChangeDateOfBirth
    \/ ChangeReferenceDate
    \/ ChangeEmbryoAge
    \/ ChangeCalculationMethod
    \/ HandleDateDifferenceSubmit
    \/ HandleDateArithmeticSubmit
    \/ HandleAgeFinderSubmit
    \/ HandlePregnancyDueDateSubmit

Spec == Init /\ [][Next]_vars

(***************************************************************************)
(* The DateInput component (src/unnamed/part_001), here the one of the     *)
(* start date: value is dateDifferenceForm.startDate and onChange sets it. *)
(* Text is a sequence of characters; a character that is not printable     *)
(* ASCII or one of \t \n \r \f is written as its code point ("U+00A0").    *)
(* op, argA and out record the last                                        *)
(* handler run, the text it read, and the argument it called onChange      *)
(* with (Null when it did not call onChange); argB records the last Date   *)
(* the form value held (Null when it never held one).                      *)
(***************************************************************************)
\* the Invalid Date that parse returns
InvalidDate == [invalid |-> TRUE]

\* isValid(date)
isValid(dt) == dt # InvalidDate

DigitChars == <<"0", "1", "2", "3", "4", "5", "6", "7", "8", "9">>

IsDigit(c) == \E i \in 1 .. 10 : DigitChars[i] = c

DigitValue(c) == (CHOOSE i \in 1 .. 10 : DigitChars[i] = c) - 1

\* the number of digits a pattern /^\d{1,n}/ matches at the start of text
RECURSIVE LeadingDigits(_, _)
LeadingDigits(text, n) ==
    IF n = 0 \/ text = <<>> THEN 0
    ELSE IF ~IsDigit(Head(text)) THEN 0
    ELSE 1 + LeadingDigits(Tail(text), n - 1)

\* parseInt of a sequence of digits
RECURSIVE NumberOf(_)
NumberOf(digits) ==
    IF digits = <<>> THEN 0
    ELSE 10 * NumberOf(SubSeq(digits, 1, Len(digits) - 1))
            + DigitValue(digits[Len(digits)])

\* parseNDigits(n, dateString): the number read and the rest of the text,
\* or Null when the text does not start with a digit
parseNDigits(n, dateString) ==
    LET k == LeadingDigits(dateString, n)
    IN  IF k = 0 THEN Null
        ELSE [value |-> NumberOf(SubSeq(dateString, 1, k)),
              rest |-> SubSeq(dateString, k + 1, Len(dateString))]

\* a character the pattern /\S/ does not match: the characters of \s,
\* [\t\n\v\f\r \u00a0\u1680\u2000-\u200a\u2028\u2029\u202f\u205f\u3000\ufeff]
IsWhitespace(c) ==
    c \in {" ", "\t", "\n", "\r", "\f", "U+000B", "U+00A0", "U+1680",
           "U+2000", "U+2001", "U+2002", "U+2003", "U+2004", "U+2005", "U+2006",
           "U+2007", "U+2008", "U+2009", "U+200A", "U+2028", "U+2029", "U+202F",
           "U+205F", "U+3000", "U+FEFF"}

\* the text goes on with the '/' of the format
StartsWithSlash(text) == IF text = <<>> THEN FALSE ELSE Head(text) = "/"

\* the fields of a text as they are read, the day only checked against
\* 1..31 (what the variant InputChangeCall_NativeDate builds its date from)
FieldsOfText(dateString) ==
    LET mm == parseNDigits(2, dateString)
    IN  IF mm = Null THEN InvalidDate
        ELSE IF ~StartsWithSlash(mm.rest) THEN InvalidDate
        ELSE LET dd == parseNDigits(2, Tail(mm.rest))
             IN  IF dd = Null THEN InvalidDate
                 ELSE IF ~StartsWithSlash(dd.rest) THEN InvalidDate
                 ELSE LET yyyy == parseNDigits(4, Tail(dd.rest))
                      IN  IF yyyy = Null THEN InvalidDate
                          ELSE IF \E i \in 1 .. Len(yyyy.rest) : ~IsWhitespace(yyyy.rest[i])
                          THEN InvalidDate
                          ELSE IF /\ yyyy.value > 0
                                  /\ mm.value \in 1 .. 12
                                  /\ dd.value \in 1 .. 31
                          THEN Ymd(yyyy.value, mm.value, dd.value)
                          ELSE InvalidDate

\* parse(dateString, "MM/dd/yyyy", new Date()): up to 2 digits, '/', up to
\* 2 digits, '/', up to 4 digits, then nothing but white space; the year
\* must be positive, the month 1..12 and the day a day of that month of
\* that year; otherwise Invalid Date
parse(dateString) ==
    LET mm == parseNDigits(2, dateString)
    IN  IF mm = Null THEN InvalidDate
        ELSE IF ~StartsWithSlash(mm.rest) THEN InvalidDate
        ELSE LET dd == parseNDigits(2, Tail(mm.rest))
             IN  IF dd = Null THEN InvalidDate
                 ELSE IF ~StartsWithSlash(dd.rest) THEN InvalidDate
                 ELSE LET yyyy == parseNDigits(4, Tail(dd.rest))
                      IN  IF yyyy = Null THEN InvalidDate
                          ELSE IF \E i \in 1 .. Len(yyyy.rest) : ~IsWhitespace(yyyy.rest[i])
                          THEN InvalidDate
                          ELSE IF /\ yyyy.value > 0
                                  /\ mm.value \in 1 .. 12
                                  /\ dd.value >= 1
                                  /\ dd.value <= DaysInMonth(yyyy.value, (mm.value - 1) % 12)
                          THEN Ymd(yyyy.value, mm.value, dd.value)
                          ELSE InvalidDate

\* addLeadingZeros(n, width)
RECURSIVE addLeadingZeros(_, _)
addLeadingZeros(n, width) ==
    IF width = 0 THEN <<>>
    ELSE Append(addLeadingZeros(n \div 10, width - 1), DigitChars[(n % 10) + 1])

\* format(date, "MM/dd/yyyy")
format(dt) ==
    addLeadingZeros(dt.month + 1, 2) \o <<"/">> \o addLeadingZeros(dt.date, 2)
        \o <<"/">> \o addLeadingZeros(dt.year, 4)

\* the effect on value: the text of a valid value, or the empty text
TextOfValue(value) ==
    IF value # Undefined /\ isValid(value) THEN format(value) ELSE <<>>

\* variant of handleInputChange: the date is built with the native Date,
\* which carries a day past the end of the month into the next month, and
\* is passed on without comparing the text with the formatted date
InputChangeCall_NativeDate(typedValue) ==
    LET fields == FieldsOfText(typedValue)
    IN  IF isValid(fields) THEN SetDate(fields, fields.date) ELSE Undefined

\* variant of handleInputChange: a valid parsed date is passed on without
\* comparing the text with the formatted date
InputChangeCall_NoRoundTrip(typedValue) ==
    LET parsedDate == parse(typedValue)
    IN  IF isValid(parsedDate) THEN parsedDate ELSE Undefined

\* handleInputChange: what onChange is called with for the typed text, or
\* Null when it is not called
InputChangeCall(typedValue) ==
    LET parsedDate == parse(typedValue)
    IN  IF isValid(parsedDate)
        THEN (IF format(parsedDate) = typedValue THEN parsedDate ELSE Null)
        ELSE Undefined

\* handleInputBlur: what onChange is called with, or Null
InputBlurCall(typedValue, value) ==
    LET parsedDate == parse(typedValue)
    IN  IF (IF isValid(parsedDate) THEN format(parsedDate) = typedValue ELSE FALSE)
        THEN (IF value = Undefined THEN parsedDate
              ELSE IF GetTime(value) # GetTime(parsedDate) THEN parsedDate ELSE Null)
        ELSE IF typedValue = <<>> /\ value # Undefined THEN Undefined
        ELSE Null

\* the texts typed or pasted into the input
Join(mm, dd, yyyy) == mm \o <<"/">> \o dd \o <<"/">> \o yyyy

MonthTexts == {<<"0", "2">>, <<"2">>, <<"0", "4">>, <<"1", "3">>}

DayTexts == {<<"2", "9">>, <<"3", "0">>, <<"3", "1">>, <<"0", "1">>, <<"1">>, <<"0", "0">>}

YearTexts == {<<"2", "0", "2", "4">>, <<"2", "0", "2", "3">>, <<"2", "4">>}

TextInputs ==
    {Join(mm, dd, yyyy) : mm \in MonthTexts, dd \in DayTexts, yyyy \in YearTexts}
        \cup {<<>>,
              <<"0", "2", "/", "3">>,
              <<"0", "4", "/", "3", "0", "/">>,
              <<"0", "2", "/", "2", "9", "/", "2", "0", "2", "4", " ">>,
              <<"0", "2", "/", "2", "9", "/", "2", "0", "2", "4", "\t">>,
              <<"0", "2", "/", "2", "9", "/", "2", "0", "2", "4", "U+00A0">>,
              <<"0", "2", "/", "2", "9", "/", "2", "0", "2", "4", " ", "U+3000", "\n">>,
              <<"0", "2", "/", "2", "9", "/", "2", "0", "2", "4", "U+200B">>,
              <<"0", "2", "/", "3", "0", "/", "2", "0", "2", "4", "U+00A0">>,
              <<"0", "2", "-", "2", "9", "-", "2", "0", "2", "4">>}

\* the days picked in the calendar (picking the selected day gives undefined)
CalendarDates == {Ymd(2024, 2, 29), Ymd(2024, 3, 1)}

\* handleInputChange on each text of the domain: InputChangeCall, as a table
InputChangeCalls == [typedValue \in TextInputs |-> InputChangeCall(typedValue)]

DateInputInit ==
    /\ HomeInit
    /\ mode = "dateInput"
    /\ argA = Null /\ argB = Null /\ argN = 0
    /\ op = "none" /\ out = Null

\* the last Date the form value held: the new value when it is a Date
LastValid(value, last) == IF value # Undefined THEN value ELSE last

\* handleInputChange, with the effect that follows a change of value
HandleInputChange ==
    /\ mode = "dateInput"
    /\ \E typedValue \in TextInputs :
          LET value == dateDifferenceForm.startDate
              call == InputChangeCalls[typedValue]
          IN  /\ dateDifferenceForm' =
                     [dateDifferenceForm EXCEPT
                         !.startDate = IF call = Null THEN value ELSE call]
              /\ inputValue' =
                     IF call = Null \/ (call = Undefined /\ value = Undefined)
                     THEN typedValue ELSE TextOfValue(call)
              /\ op' = "handleInputChange"
              /\ argA' = typedValue
              /\ out' = call
    /\ argB' = LastValid(dateDifferenceForm'.startDate, argB)
    /\ UNCHANGED <<mode, argN, isPopoverOpen, dateArithmeticForm, ageFinderForm,
                   pregnancyDueDateForm, resultVars, currentDate, now>>

\* handleInputBlur, with the effect that follows a change of value
HandleInputBlur ==
    /\ mode = "dateInput"
    /\ LET value == dateDifferenceForm.startDate
           typedValue == inputValue
           parsedDate == parse(typedValue)
           complete == IF isValid(parsedDate) THEN format(parsedDate) = typedValue
                       ELSE FALSE
           call == InputBlurCall(typedValue, value)
       IN  /\ dateDifferenceForm' =
                  [dateDifferenceForm EXCEPT
                      !.startDate = IF call = Null THEN value ELSE call]
           /\ inputValue' =
                  IF call # Null THEN TextOfValue(call)
                  ELSE IF complete THEN inputValue
                  ELSE IF value # Undefined THEN format(value)
                  ELSE inputValue
           /\ op' = "handleInputBlur"
           /\ argA' = typedValue
           /\ out' = call
    /\ argB' = LastValid(dateDifferenceForm'.startDate, argB)
    /\ UNCHANGED <<mode, argN, isPopoverOpen, dateArithmeticForm, ageFinderForm,
                   pregnancyDueDateForm, resultVars, currentDate, now>>

\* handleDateSelect, called by the calendar of the open popover
HandleDateSelect ==
    /\ mode = "dateInput"
    /\ isPopoverOpen
    /\ \E selectedDate \in CalendarDates \cup {Undefined} :
          IF selectedDate # Undefined
          THEN /\ inputValue' = format(selectedDate)
               /\ dateDifferenceForm' =
                      [dateDifferenceForm EXCEPT !.startDate = selectedDate]
               /\ isPopoverOpen' = FALSE
               /\ op' = "handleDateSelect"
               /\ argA' = selectedDate
               /\ out' = selectedDate
          ELSE /\ op' = "handleDateSelect"
               /\ argA' = selectedDate
               /\ out' = Null
               /\ UNCHANGED <<inputValue, dateDifferenceForm, isPopoverOpen>>
    /\ argB' = LastValid(dateDifferenceForm'.startDate, argB)
    /\ UNCHANGED <<mode, argN, dateArithmeticForm, ageFinderForm,
                   pregnancyDueDateForm, resultVars, currentDate, now>>

\* Popover.onOpenChange: setIsPopoverOpen
OnOpenChange ==
    /\ mode = "dateInput"
    /\ isPopoverOpen' = ~isPopoverOpen
    /\ UNCHANGED <<engineVars, inputValue, formVars, resultVars, currentDate, now>>

DateInputNext ==
    \/ HandleInputChange
    \/ HandleInputBlur
    \/ HandleDateSelect
    \/ OnOpenChange

DateInputSpec == DateInputInit /\ [][DateInputNext]_vars

(***************************************************************************)
(* The page without the IVF method (src/src/app/page.tsx).  Its due date   *)
(* form has the method and the two dates; the IVF fields of                *)
(* pregnancyDueDateForm stay undefined.  The due date result is a Date.    *)
(* The other three forms, their schemas and their handlers are those of    *)
(* the Home page.  op, argB and out record the last submit of the due date *)
(* form, the data it was called on, and the due date it set.               *)
(***************************************************************************)
\* pregnancyDueDateSchema of page.tsx with its superRefine
PagePregnancyDueDateSchema(data, clock) ==
    /\ data.calculationMethod \in {"lmp", "conception"}
    /\ data.calculationMethod = "lmp" =>
           ReferenceDateOk(data.lastMenstrualPeriod, clock, subYears(clock, 2))
    /\ data.calculationMethod = "conception" =>
           ReferenceDateOk(data.conceptionDate, clock, subMonths(clock, 9))

\* the method named in the note under the due date: read from the watched
\* calculationMethod of the form
PageNote(form) ==
    IF form.calculationMethod = "lmp" THEN "LMP (Naegele's rule)" ELSE "conception date"

\* the dates entered in the due date form
PageDates == {Ymd(2024, 1, 31), Ymd(2024, 2, 29)}

\* the values entered in the other forms of the page
PageStartDates == {Ymd(2024, 1, 31)}

PageEndDates == {Ymd(2024, 3, 1)}

PageDayInputs == {Num(1)}

PageBirthDates == {Ymd(2000, 2, 29)}

PageInit ==
    /\ HomeInit
    /\ mode = "pageTsx"
    /\ argA = Null /\ argB = Null /\ argN = 0
    /\ op = "none" /\ out = Null

\* the effect run on mount: setCurrentDate(new Date())
PageMount ==
    /\ mode = "pageTsx"
    /\ currentDate = Null
    /\ currentDate' = now
    /\ UNCHANGED <<engineVars, inputVars, formVars, resultVars, now>>

\* the user acts on the page once it is mounted
PageMounted == mode = "pageTsx" /\ currentDate # Null

\* field.onChange of the fields of the other three forms
PageChangeStartDate ==
    /\ PageMounted
    /\ \E v \in PageStartDates \cup {Undefined} :
          dateDifferenceForm' = [dateDifferenceForm EXCEPT !.startDate = v]
    /\ UNCHANGED <<engineVars, inputVars, dateArithmeticForm, ageFinderForm, pregnancyDueDateForm,
                   resultVars, currentDate, now>>

PageChangeEndDate ==
    /\ PageMounted
    /\ \E v \in PageEndDates \cup {Undefined} :
          dateDifferenceForm' = [dateDifferenceForm EXCEPT !.endDate = v]
    /\ UNCHANGED <<engineVars, inputVars, dateArithmeticForm, ageFinderForm, pregnancyDueDateForm,
                   resultVars, currentDate, now>>

PageChangeBaseDate ==
    /\ PageMounted
    /\ \E v \in BaseDates \cup {Undefined} :
          dateArithmeticForm' = [dateArithmeticForm EXCEPT !.baseDate = v]
    /\ UNCHANGED <<engineVars, inputVars, dateDifferenceForm, ageFinderForm, pregnancyDueDateForm,
                   resultVars, currentDate, now>>

PageChangeOperation ==
    /\ PageMounted
    /\ \E v \in {"add", "subtract"} :
          dateArithmeticForm' = [dateArithmeticForm EXCEPT !.operation = v]
    /\ UNCHANGED <<engineVars, inputVars, dateDifferenceForm, ageFinderForm, pregnancyDueDateForm,
                   resultVars, currentDate, now>>

\* the days input: '' becomes undefined, anything else the number typed
PageChangeDays ==
    /\ PageMounted
    /\ \E v \in PageDayInputs \cup {Undefined} :
          dateArithmeticForm' = [dateArithmeticForm EXCEPT !.days = v]
    /\ UNCHANGED <<engineVars, inputVars, dateDifferenceForm, ageFinderForm, pregnancyDueDateForm,
                   resultVars, currentDate, now>>

PageChangeDateOfBirth ==
    /\ PageMounted
    /\ \E v \in PageBirthDates \cup {Undefined} :
          ageFinderForm' =
              [dateOfBirth |-> v, isValid |-> ageFinderSchema([dateOfBirth |-> v], now)]
    /\ UNCHANGED <<engineVars, inputVars, dateDifferenceForm, dateArithmeticForm,
                   pregnancyDueDateForm, resultVars, currentDate, now>>

\* RadioGroup onValueChange={field.onChange}: the method of the form
\* changes, nothing else
PageChangeCalculationMethod ==
    /\ PageMounted
    /\ \E value \in {"lmp", "conception"} :
          pregnancyDueDateForm' = [pregnancyDueDateForm EXCEPT !.calculationMethod = value]
    /\ UNCHANGED <<engineVars, inputVars, dateDifferenceForm, dateArithmeticForm, ageFinderForm,
                   resultVars, currentDate, now>>

\* the date field rendered for the selected method
PageChangeReferenceDate ==
    /\ PageMounted
    /\ \E v \in PageDates \cup {Undefined} :
          pregnancyDueDateForm' =
              [pregnancyDueDateForm EXCEPT
                  ![IF pregnancyDueDateForm.calculationMethod = "lmp"
                    THEN "lastMenstrualPeriod" ELSE "conceptionDate"] = v]
    /\ UNCHANGED <<engineVars, inputVars, dateDifferenceForm, dateArithmeticForm, ageFinderForm,
                   resultVars, currentDate, now>>

\* handleSubmit(handleDateDifferenceSubmit) of page.tsx
PageHandleDateDifferenceSubmit ==
    /\ PageMounted
    /\ dateDifferenceSchema(dateDifferenceForm)
    /\ dateDifferenceResult' =
          DateDifference(dateDifferenceForm.startDate, dateDifferenceForm.endDate)
    /\ arithmeticResult' = Null
    /\ arithmeticOperation' = NullEnum
    /\ ageResult' = Null
    /\ pregnancyDueDateResult' = Null
    /\ UNCHANGED <<engineVars, inputVars, formVars, currentDate, now>>

\* handleSubmit(handleDateArithmeticSubmit) of page.tsx
PageHandleDateArithmeticSubmit ==
    /\ PageMounted
    /\ dateArithmeticSchema(dateArithmeticForm)
    /\ IF (IF dateArithmeticForm.days = Undefined THEN FALSE
           ELSE dateArithmeticForm.days.number >= 1)
       THEN /\ arithmeticResult' =
                  ArithmeticResultDate(dateArithmeticForm.baseDate,
                                       dateArithmeticForm.days.number,
                                       dateArithmeticForm.operation)
            /\ arithmeticOperation' = dateArithmeticForm.operation
            /\ dateDifferenceResult' = Null
            /\ ageResult' = Null
            /\ pregnancyDueDateResult' = Null
       ELSE /\ arithmeticResult' = Null
            /\ arithmeticOperation' = NullEnum
            /\ UNCHANGED <<dateDifferenceResult, ageResult, pregnancyDueDateResult>>
    /\ UNCHANGED <<engineVars, inputVars, formVars, currentDate, now>>

\* handleSubmit(handleAgeFinderSubmit) of page.tsx
PageHandleAgeFinderSubmit ==
    /\ PageMounted
    /\ ageFinderForm.isValid
    /\ ageFinderSchema(ageFinderForm, now)
    /\ ageResult' = intervalToDuration(ageFinderForm.dateOfBirth, currentDate)
    /\ dateDifferenceResult' = Null
    /\ arithmeticResult' = Null
    /\ arithmeticOperation' = NullEnum
    /\ pregnancyDueDateResult' = Null
    /\ UNCHANGED <<engineVars, inputVars, formVars, currentDate, now>>

\* handleSubmit(handlePregnancyDueDateSubmit) of page.tsx
PageHandlePregnancyDueDateSubmit ==
    /\ PageMounted
    /\ PagePregnancyDueDateSchema(pregnancyDueDateForm, now)
    /\ pregnancyDueDateResult' = PagePregnancyDueDate(pregnancyDueDateForm)
    /\ dateDifferenceResult' = Null
    /\ arithmeticResult' = Null
    /\ arithmeticOperation' = NullEnum
    /\ ageResult' = Null
    /\ op' = "handlePregnancyDueDateSubmit"
    /\ argB' = pregnancyDueDateForm
    /\ out' = PagePregnancyDueDate(pregnancyDueDateForm)
    /\ UNCHANGED <<mode, argA, argN, inputVars, formVars, currentDate, now>>

PageNext ==
    \/ PageMount
    \/ PageChangeStartDate
    \/ PageChangeEndDate
    \/ PageChangeBaseDate
    \/ PageChangeOperation
    \/ PageChangeDays
    \/ PageChangeDateOfBirth
    \/ PageChangeCalculationMethod
    \/ PageChangeReferenceDate
    \/ PageHandleDateDifferenceSubmit
    \/ PageHandleDateArithmeticSubmit
    \/ PageHandleAgeFinderSubmit
    \/ PageHandlePregnancyDueDateSubmit

PageSpec == PageInit /\ [][PageNext]_vars

\* the results the page shows when a handler is called: none (1), or the
\* one result a submit of the difference (2), arithmetic (3), age (4) or
\* due date (5) form has set (from 01/31/2024 to 03/01/2024; 02/29/2024
\* minus 1 day; born 02/29/2000, at ClockStart; LMP 01/31/2024)
ShownResults ==
    LET none == [dateDifferenceResult |-> Null, arithmeticResult |-> Null,
                 arithmeticOperation |-> NullEnum, ageResult |-> Null,
                 pregnancyDueDateResult |-> Null]
    IN  <<none,
         [none EXCEPT !.dateDifferenceResult =
                          [days |-> 30, weeks |-> 4, months |-> 1, years |-> 0]],
         [none EXCEPT !.arithmeticResult = Ymd(2024, 2, 28),
                      !.arithmeticOperation = "subtract"],
         [none EXCEPT !.ageResult = [years |-> 24, months |-> 0, days |-> 0]],
         [none EXCEPT !.pregnancyDueDateResult =
                          [date |-> Ymd(2024, 11, 6), method |-> "LMP (Naegele's rule)"]]>>

(***************************************************************************)
(* The calendar functions applied to drawn inputs: a date and an offset    *)
(* (mode "offset"), two dates (mode "pair"), or a date of birth and the    *)
(* current date read from the clock (mode "age"), or a reference date and  *)
(* the due date form data holding it (mode "due"); and the due date        *)
(* handler called on form data while the mounted page shows a result (mode *)
(* "handler": currentDate holds the date of the mount).                    *)
(***************************************************************************)
EngineInit ==
    /\ HomeFormsInit
    /\ op = "none"
    /\ out = Null
    /\ \/ /\ mode = "handler"
          /\ argA \in ReferenceDates \cup {Undefined}
          /\ argB \in {DueDateData(m, e, argA) : m \in MethodInputs, e \in EmbryoAgeInputs}
          /\ argN \in 1 .. Len(ShownResults)
          /\ dateDifferenceResult = ShownResults[argN].dateDifferenceResult
          /\ arithmeticResult = ShownResults[argN].arithmeticResult
          /\ arithmeticOperation = ShownResults[argN].arithmeticOperation
          /\ ageResult = ShownResults[argN].ageResult
          /\ pregnancyDueDateResult = ShownResults[argN].pregnancyDueDateResult
          /\ currentDate = now
       \/ /\ mode = "due"
          /\ argA \in Dates
          /\ argB \in {DueDateData(m, e, argA) : m \in MethodInputs, e \in EmbryoAgeInputs}
          /\ argN = 0
          /\ NoResults
          /\ currentDate = Null
       \/ /\ mode = "offset"
          /\ argA \in Dates
          /\ argB = argA
          /\ argN \in Offsets
          /\ NoResults
          /\ currentDate = Null
       \/ /\ mode = "age"
          /\ argA \in Dates
          /\ argB \in AsOfDates
          /\ argN = 0
          /\ NoResults
          /\ currentDate = argB
       \/ /\ mode = "pair"
          /\ argA \in Dates
          /\ argB \in Dates
          /\ argN = 0
          /\ NoResults
          /\ currentDate = Null

\* a submit handler called on drawn data: it passes the value it computed
\* to the setter of its own result and null to the other setters; out
\* records the value
EvalSubmit(name, setter, result) ==
    /\ op = "none"
    /\ op' = name
    /\ out' = result
    /\ dateDifferenceResult' = (IF setter = "setDateDifferenceResult" THEN out' ELSE Null)
    /\ arithmeticResult' = Null
    /\ arithmeticOperation' = NullEnum
    /\ ageResult' = (IF setter = "setAgeResult" THEN out' ELSE Null)
    /\ pregnancyDueDateResult' = (IF setter = "setPregnancyDueDateResult" THEN out' ELSE Null)
    /\ UNCHANGED <<mode, argA, argB, argN, inputVars, formVars, currentDate, now>>

\* an expression of a handler or schema evaluated on drawn data: no state
\* of the page is written
Eval(name, result) ==
    /\ op = "none"
    /\ op' = name
    /\ out' = result
    /\ UNCHANGED <<mode, argA, argB, argN, inputVars, formVars, resultVars, currentDate, now>>

\* the resultDate expression of handleDateArithmeticSubmit (addDays or
\* subDays of baseDate and days) on any offset, also those the handler's
\* guard days >= 1 keeps from it
EvalAdd == mode = "offset" /\ Eval("add", ArithmeticResultDate(argA, argN, "add"))

EvalSubtract ==
    mode = "offset" /\ Eval("subtract", ArithmeticResultDate(argA, argN, "subtract"))

EvalAddMonths == mode = "offset" /\ Eval("addMonths", addMonths(argA, argN))

EvalSubMonths == mode = "offset" /\ Eval("subMonths", subMonths(argA, argN))

EvalAddYears == mode = "offset" /\ Eval("addYears", addYears(argA, argN))

EvalSubYears == mode = "offset" /\ Eval("subYears", subYears(argA, argN))

\* handleDateDifferenceSubmit on startDate argA and endDate argB
EvalDateDifference ==
    /\ mode = "pair"
    /\ EvalSubmit("difference", "setDateDifferenceResult",
                  DateDifference(argA, argB))

\* handleDateDifferenceSubmit, the end date argN days after the start date
EvalDateDifferenceAfter ==
    /\ mode = "offset"
    /\ EvalSubmit("differenceAfter", "setDateDifferenceResult",
                  DateDifference(argA, addDays(argA, argN)))

\* handleAgeFinderSubmit: dateOfBirth is argA, and currentDate holds argB
EvalAge ==
    /\ mode = "age"
    /\ currentDate # Null
    /\ EvalSubmit("age", "setAgeResult",
                  intervalToDuration(argA, currentDate))

\* handlePregnancyDueDateSubmit called on the data argB
EvalPregnancyDueDate ==
    /\ mode = "due"
    /\ EvalSubmit("dueDate", "setPregnancyDueDateResult",
                  PregnancyDueDate(argB))

\* handleSubmit(handlePregnancyDueDateSubmit): the handler is called when
\* the schema accepts the data, and no result is set when it does not
EvalPregnancyDueDateSubmit ==
    /\ mode = "due"
    /\ IF pregnancyDueDateSchema(argB, now)
       THEN EvalSubmit("dueDateSubmit", "setPregnancyDueDateResult",
                  PregnancyDueDate(argB))
       ELSE Eval("dueDateSubmit", Null)

\* variant: the other results are cleared only when a due date is set
EvalHandlePregnancyDueDateSubmit_ClearOnSuccess ==
    /\ mode = "handler"
    /\ op = "none"
    /\ op' = "handlePregnancyDueDateSubmit"
    /\ out' = PregnancyDueDate(argB)
    /\ pregnancyDueDateResult' = PregnancyDueDate(argB)
    /\ IF PregnancyDueDate(argB) # Null
       THEN /\ dateDifferenceResult' = Null
            /\ arithmeticResult' = Null
            /\ arithmeticOperation' = NullEnum
            /\ ageResult' = Null
       ELSE UNCHANGED <<dateDifferenceResult, arithmeticResult, arithmeticOperation,
                        ageResult>>
    /\ UNCHANGED <<mode, argA, argB, argN, inputVars, formVars, currentDate, now>>

\* handlePregnancyDueDateSubmit called on the data argB while the page
\* shows a result: the whole handler, with the results it clears
EvalHandlePregnancyDueDateSubmit ==
    /\ mode = "handler"
    /\ op = "none"
    /\ op' = "handlePregnancyDueDateSubmit"
    /\ out' = PregnancyDueDate(argB)
    /\ pregnancyDueDateResult' = PregnancyDueDate(argB)
    /\ dateDifferenceResult' = Null
    /\ arithmeticResult' = Null
    /\ arithmeticOperation' = NullEnum
    /\ ageResult' = Null
    /\ UNCHANGED <<mode, argA, argB, argN, inputVars, formVars, currentDate, now>>

\* the handler of src/app/page.tsx
EvalPagePregnancyDueDate ==
    /\ mode = "due"
    /\ EvalSubmit("pageDueDate", "setPregnancyDueDateResult",
                  PagePregnancyDueDate(argB))

\* the older handler of src/app/layout.tsx
EvalLayoutPregnancyDueDate ==
    /\ mode = "due"
    /\ EvalSubmit("layoutDueDate", "setPregnancyDueDateResult",
                  LayoutPregnancyDueDate(argB))

EngineNext ==
    \/ EvalAdd
    \/ EvalSubtract
    \/ EvalAddMonths
    \/ EvalSubMonths
    \/ EvalAddYears
    \/ EvalSubYears
    \/ EvalDateDifference
    \/ EvalDateDifferenceAfter
    \/ EvalAge
    \/ EvalPregnancyDueDate
    \/ EvalPregnancyDueDateSubmit
    \/ EvalHandlePregnancyDueDateSubmit
    \/ EvalPagePregnancyDueDate
    \/ EvalLayoutPregnancyDueDate

EngineSpec == EngineInit /\ [][EngineNext]_vars

(***************************************************************************)
(* Properties of the calendar arithmetic.                                  *)
(***************************************************************************)
Zeros == [days |-> 0, weeks |-> 0, months |-> 0, years |-> 0]

Min(x, y) == IF x <= y THEN x ELSE y

\* month and day of p come before month and day of q
MonthDayBefore(p, q) == p.month < q.month \/ (p.month = q.month /\ p.date < q.date)

\* calendar date p comes before calendar date q
DateBefore(p, q) == p.year < q.year \/ (p.year = q.year /\ MonthDayBefore(p, q))

\* the proleptic Gregorian rule
GregorianLeap(y) == (y % 4 = 0) /\ ((y % 100 # 0) \/ (y % 400 = 0))

\* dt moved by a number of months, the day kept or lowered to the last day
\* of the target month
ClampedShift(dt, months) ==
    LET idx == dt.year * 12 + dt.month + months
        y == idx \div 12
        m == idx % 12
        len == IF m = 1 THEN (IF GregorianLeap(y) THEN 29 ELSE 28)
               ELSE IF m \in {3, 5, 8, 10} THEN 30 ELSE 31
    IN  [year |-> y, month |-> m, date |-> Min(dt.date, len), hours |-> dt.hours]

\* C1: the days from a date to the date n days later are n, for every n
\* (positive, zero, negative), across month ends, year ends and 29 February.
C1_DifferenceOfAddDays == op = "add" => differenceInDays(out, argA) = argN

C1_Witness ==
    /\ op = "add" /\ argA = Ymd(2024, 3, 1) /\ argN = -2
    /\ out = Ymd(2024, 2, 28)

\* C2: subtracting n days and then adding n days gives the date back.
C2_AddAfterSubtract == op = "subtract" => addDays(out, argN) = argA

C2_Witness ==
    /\ op = "subtract" /\ argA = Ymd(2025, 1, 1) /\ argN = 366
    /\ out = Ymd(2024, 1, 1)

\* C3: the 'subtract' operation with n days gives the date that adding -n
\* days gives.
C3_SubtractIsAddNegated == op = "subtract" => out = addDays(argA, -argN)

C3_Witness ==
    /\ op = "subtract" /\ argA = Ymd(2000, 3, 1) /\ argN = 1
    /\ out = Ymd(2000, 2, 29)

\* C4: swapping the two dates negates the difference in days and in weeks.
C4_SwapNegates ==
    op = "difference" =>
        /\ out.days = -differenceInDays(argA, argB)
        /\ out.weeks = -differenceInWeeks(argA, argB)

C4_Witness ==
    /\ op = "difference" /\ argA = Ymd(2024, 3, 1) /\ argB = Ymd(2024, 1, 1)
    /\ out.days = -60 /\ out.weeks = -8

\* C5: the weeks are the days divided by 7 and truncated toward zero.
C5_WeeksTruncateDays ==
    op = "difference" =>
        /\ 7 * Abs(out.weeks) <= Abs(out.days)
        /\ Abs(out.days) < 7 * Abs(out.weeks) + 7
        /\ out.weeks # 0 => Sign(out.weeks) = Sign(out.days)

C5_Witness ==
    /\ op = "difference" /\ out.days = -27 /\ out.weeks = -3

\* C6: for a <= b the months are the m >= 0 such that a moved m months on
\* (day kept, or lowered to the end of a shorter month) is not after b and
\* a moved m+1 months on is after b, 31 January to 30 April being 3; for b
\* before a the result is not positive.
C6_MonthsDoNotOvershoot ==
    op = "difference" =>
        /\ compareAsc(argA, argB) <= 0 =>
              /\ out.months >= 0
              /\ compareAsc(ClampedShift(argA, out.months), argB) <= 0
              /\ compareAsc(ClampedShift(argA, out.months + 1), argB) > 0
        /\ argA = Ymd(2024, 1, 31) /\ argB = Ymd(2024, 4, 30) => out.months = 3
        /\ compareAsc(argA, argB) > 0 => out.months <= 0

\* C7: for a <= b a year is counted once month and day of a are reached in
\* the year of b; 2000-02-29 to 2024-02-28 is 23 and to 2024-02-29 is 24.
C7_YearsByAnniversary ==
    op = "difference" =>
        /\ ~DateBefore(argB, argA) =>
              out.years = (argB.year - argA.year)
                            - (IF MonthDayBefore(argB, argA) THEN 1 ELSE 0)
        /\ argA = Ymd(2000, 2, 29) /\ argB = Ymd(2024, 2, 28) => out.years = 23
        /\ argA = Ymd(2000, 2, 29) /\ argB = Ymd(2024, 2, 29) => out.years = 24

C7_Witness ==
    /\ op = "difference" /\ argA = Ymd(2000, 2, 29) /\ argB = Ymd(2024, 2, 28)
    /\ out.years = 23

\* C8: adding or subtracting months or years keeps the day of the month, or
\* takes the last day of the target month when that month is shorter; it
\* never runs into the following month.
C8_MonthsAndYearsClamp ==
    /\ op = "addMonths" => out = ClampedShift(argA, argN)
    /\ op = "subMonths" => out = ClampedShift(argA, -argN)
    /\ op = "addYears" => out = ClampedShift(argA, 12 * argN)
    /\ op = "subYears" => out = ClampedShift(argA, -12 * argN)
    /\ op = "addMonths" /\ argA = Ymd(2024, 1, 31) /\ argN = 1 => out = Ymd(2024, 2, 29)
    /\ op = "addYears" /\ argA = Ymd(2024, 2, 29) /\ argN = 1 => out = Ymd(2025, 2, 28)

C8_Witness ==
    /\ op = "addMonths" /\ argA = Ymd(2024, 1, 31) /\ argN = 1
    /\ out = Ymd(2024, 2, 29)

\* C9: the difference of a date with itself is 0 in days, weeks, months
\* and years, and the form accepts equal start and end dates.
C9_SameDateIsZero ==
    op = "difference" /\ argA = argB =>
        /\ dateDifferenceSchema([startDate |-> argA, endDate |-> argB])
        /\ out = Zeros

C9_Witness == op = "difference" /\ argA = Ymd(2024, 2, 29) /\ argB = argA /\ out = Zeros

\* C10: the day after 28 February is 29 February exactly in the years
\* divisible by 4 and not by 100, or by 400; the days from a date to the
\* same date of the next year are 366 exactly when a 29 February lies
\* between them, and 365 otherwise.
C10_GregorianLeapRule ==
    /\ op = "add" /\ argN = 1 /\ argA.month = 1 /\ argA.date = 28 =>
          out = IF GregorianLeap(argA.year)
                THEN Ymd(argA.year, 2, 29) ELSE Ymd(argA.year, 3, 1)
    /\ op = "difference" /\ argB.year = argA.year + 1
         /\ argB.month = argA.month /\ argB.date = argA.date =>
          out.days = IF \E y \in {argA.year, argB.year} :
                            /\ GregorianLeap(y)
                            /\ DateBefore(argA, Ymd(y, 2, 29))
                            /\ DateBefore(Ymd(y, 2, 29), argB)
                     THEN 366 ELSE 365
    /\ op = "add" /\ argA = Ymd(1900, 2, 28) /\ argN = 1 => out = Ymd(1900, 3, 1)
    /\ op = "add" /\ argA = Ymd(2000, 2, 28) /\ argN = 1 => out = Ymd(2000, 2, 29)
    /\ op = "add" /\ argA = Ymd(2100, 2, 28) /\ argN = 1 => out = Ymd(2100, 3, 1)

C10_Witness ==
    /\ op = "difference" /\ argA = Ymd(1900, 2, 28) /\ argB = Ymd(1901, 2, 28)
    /\ out.days = 365

\* C11: the four fields are each the whole difference in their unit: an
\* end date 400 days after the start date gives days 400, weeks 57, months
\* 13 and years 1, and for every offset the days are the offset and the
\* weeks the whole weeks in it.
C11_FieldsAreWholeDifferences ==
    op = "differenceAfter" =>
        /\ out.days = argN
        /\ out.weeks = Trunc(argN, 7)
        /\ argN = 400 => out = [days |-> 400, weeks |-> 57, months |-> 13, years |-> 1]

C11_Witness ==
    /\ op = "differenceAfter" /\ argA = Ymd(2024, 1, 31) /\ argN = 400
    /\ out = [days |-> 400, weeks |-> 57, months |-> 13, years |-> 1]

\* C12: for a date of birth not after the current date, adding the years of
\* the age to the date of birth (day kept, or lowered to the end of a
\* shorter month), then the months in the same way, then the days, gives
\* the calendar day of the current date.
C12_AgeReconstructsAsOf ==
    op = "age" /\ GetTime(argA) <= GetTime(argB) =>
        DayNumber(ClampedShift(ClampedShift(argA, 12 * out.years), out.months))
            + out.days = DayNumber(argB)

\* C13: an age is never computed from a date of birth later than the
\* current date it is computed against: whenever a submit sets ageResult,
\* the date of birth of the form is not after currentDate.
C13_NoAgeFromLaterBirth ==
    [][(ageResult' # Null /\ ageResult' # ageResult) =>
          GetTime(ageFinderForm.dateOfBirth) <= GetTime(currentDate)]_vars

\* the method and embryo age combinations that have a due date rule
Recognised(data) ==
    \/ data.calculationMethod \in {"lmp", "conception"}
    \/ data.calculationMethod = "ivf" /\ data.ivfEmbryoAge \in {"day3", "day5"}

\* the days the rule of a recognised combination adds
RuleOffset(data) ==
    CASE data.calculationMethod = "lmp" -> 280
      [] data.calculationMethod = "conception" -> 266
      [] data.calculationMethod = "ivf" /\ data.ivfEmbryoAge = "day3" -> 263
      [] data.calculationMethod = "ivf" /\ data.ivfEmbryoAge = "day5" -> 261

\* C14: the due date is the reference date plus 280 days (LMP), 266
\* (conception), 263 (IVF day 3) or 261 (IVF day 5), whatever the reference
\* date; LMP 2024-01-01 gives 2024-10-07; no result has another offset.
C14_DueDateOffsets ==
    /\ op = "dueDate" /\ Recognised(argB) =>
          /\ out # Null
          /\ DayNumber(out.date) - DayNumber(argA) = RuleOffset(argB)
    /\ op = "dueDate" /\ out # Null =>
          DayNumber(out.date) - DayNumber(argA) \in {280, 266, 263, 261}
    /\ op = "pageDueDate" /\ argB.calculationMethod \in {"lmp", "conception"} =>
          /\ out # Null
          /\ DayNumber(out) - DayNumber(argA) = RuleOffset(argB)
    /\ op = "pageDueDate" /\ argB.calculationMethod \notin {"lmp", "conception"} =>
          out = Null
    /\ op \in {"dueDate", "pageDueDate"} /\ argB.calculationMethod = "lmp"
         /\ argA = Ymd(2024, 1, 1) =>
          (IF op = "dueDate" THEN out.date ELSE out) = Ymd(2024, 10, 7)

C14_Witness ==
    /\ op = "dueDate" /\ argA = Ymd(2024, 1, 1)
    /\ argB.calculationMethod = "ivf" /\ argB.ivfEmbryoAge = "day3"
    /\ out # Null /\ out.date = Ymd(2024, 9, 20)

\* C15 as stated: IVF, reference date 2024-01-01, embryo age day5 gives
\* 2024-09-17.
C15_IvfDay5Example_Stated ==
    op = "dueDate" /\ argA = Ymd(2024, 1, 1) /\ argB.calculationMethod = "ivf"
        /\ argB.ivfEmbryoAge = "day5" =>
        out # Null /\ out.date = Ymd(2024, 9, 17)

\* C15, amended: IVF, reference date 2024-01-01, embryo age day5 gives
\* 2024-09-18, the date 261 days after the reference date.
C15_IvfDay5Example ==
    op = "dueDate" /\ argA = Ymd(2024, 1, 1) /\ argB.calculationMethod = "ivf"
        /\ argB.ivfEmbryoAge = "day5" =>
        /\ out # Null
        /\ out.date = Ymd(2024, 9, 18)
        /\ DayNumber(out.date) - DayNumber(argA) = 261

C15_Witness ==
    /\ op = "dueDate" /\ argA = Ymd(2024, 1, 1) /\ argB.calculationMethod = "ivf"
    /\ argB.ivfEmbryoAge = "day5" /\ out # Null /\ out.date = Ymd(2024, 9, 18)

\* C16: a submit yields a due date only for LMP, conception, IVF with day3
\* and IVF with day5: IVF without an embryo age, IVF with another embryo
\* age, and any other method yield none.
C16_NoDueDateForOtherCombinations ==
    op = "dueDateSubmit" =>
        /\ out # Null => Recognised(argB)
        /\ argB.ivfEmbryoAge \notin {UndefinedEnum, "day3", "day5"} => out = Null
        /\ argB.calculationMethod = "ivf" /\ argB.ivfEmbryoAge = UndefinedEnum => out = Null
        /\ argB.calculationMethod \notin {"lmp", "conception", "ivf"} => out = Null

\* the schema has nothing against the reference date itself
C16_Witness ==
    /\ op = "dueDateSubmit" /\ argA = Ymd(2024, 1, 1)
    /\ argB.calculationMethod = "ivf" /\ argB.ivfEmbryoAge = "day6"
    /\ ReferenceDateOk(argB.ivfTransferDate, now, subMonths(now, 9))
    /\ out = Null

\* C18: for every last menstrual period the older rule (plus 1 year, minus
\* 3 months, plus 7 days) gives the due date that plus 280 days gives.
C18_NaegeleIs280Days ==
    op = "layoutDueDate" /\ argB.calculationMethod = "lmp" =>
        out = PagePregnancyDueDate(argB)

\* the length of month m (0..11) of year y by the Gregorian rule
GregorianDaysIn(y, m) ==
    IF m = 1 THEN (IF GregorianLeap(y) THEN 29 ELSE 28)
    ELSE IF m \in {3, 5, 8, 10} THEN 30 ELSE 31

\* a text of the form dd/dd/dddd, and the numbers it literally denotes
IsFullText(text) ==
    /\ Len(text) = 10
    /\ text[3] = "/" /\ text[6] = "/"
    /\ \A i \in {1, 2, 4, 5, 7, 8, 9, 10} : IsDigit(text[i])

MonthOfText(text) == 10 * DigitValue(text[1]) + DigitValue(text[2])

DayOfText(text) == 10 * DigitValue(text[4]) + DigitValue(text[5])

YearOfText(text) ==
    1000 * DigitValue(text[7]) + 100 * DigitValue(text[8])
        + 10 * DigitValue(text[9]) + DigitValue(text[10])

\* the text names a month and a year and a day that month does not have
DayOutOfRange(text) ==
    /\ IsFullText(text)
    /\ MonthOfText(text) \in 1 .. 12
    /\ YearOfText(text) > 0
    /\ DayOfText(text) \notin 1 .. GregorianDaysIn(YearOfText(text), MonthOfText(text) - 1)

\* C17: for a typed text whose day is out of range for its month and year
\* onChange is not called with a Date; a Date passed to onChange by the
\* text handlers is the date the text literally denotes; and the field
\* never holds a date whose day its month does not have.
C17_OutOfRangeDayNeverBecomesDate ==
    /\ op \in {"handleInputChange", "handleInputBlur"} =>
          /\ DayOutOfRange(argA) => out \in {Null, Undefined}
          /\ out \notin {Null, Undefined} =>
                /\ IsFullText(argA)
                /\ out = [year |-> YearOfText(argA), month |-> MonthOfText(argA) - 1,
                          date |-> DayOfText(argA), hours |-> 0]
    /\ mode = "dateInput" /\ dateDifferenceForm.startDate # Undefined =>
          LET value == dateDifferenceForm.startDate
          IN  /\ value.month \in 0 .. 11
              /\ value.date \in 1 .. GregorianDaysIn(value.year, value.month)

\* 02/30/2024 typed while the field holds a date: the field is cleared
C17_Witness ==
    /\ op = "handleInputChange"
    /\ argA = <<"0", "2", "/", "3", "0", "/", "2", "0", "2", "4">>
    /\ out = Undefined
    /\ dateDifferenceForm.startDate = Undefined
    /\ inputValue = <<>>

\* C19: whenever a date difference result is shown, its days, weeks, months
\* and years are all >= 0 (a submit with the end date before the start date
\* is rejected by the schema).
C19_DifferenceResultNotNegative ==
    dateDifferenceResult # Null =>
        /\ dateDifferenceResult.days >= 0
        /\ dateDifferenceResult.weeks >= 0
        /\ dateDifferenceResult.months >= 0
        /\ dateDifferenceResult.years >= 0

\* a result is shown, and the form now holds the two dates in reverse order
C19_Witness ==
    /\ dateDifferenceResult = [days |-> 30, weeks |-> 4, months |-> 1, years |-> 0]
    /\ dateDifferenceForm = [startDate |-> Ymd(2024, 3, 1), endDate |-> Ymd(2024, 1, 31)]

\* C20: an arithmetic result is set only from a days value that is an
\* integer >= 1, and a submit with days absent sets arithmeticResult and
\* arithmeticOperation to null.
C20_ResultOnlyFromPositiveInteger ==
    [][/\ (arithmeticResult' # Null /\ arithmeticResult' # arithmeticResult) =>
             IF dateArithmeticForm.days = Undefined THEN FALSE
             ELSE IsInteger(dateArithmeticForm.days)
                    /\ dateArithmeticForm.days.number >= 1
       /\ (HandleDateArithmeticSubmit /\ dateArithmeticForm.days = Undefined) =>
             arithmeticResult' = Null /\ arithmeticOperation' = NullEnum]_vars

\* a result was set from 1 day; the field now holds 1.5, whose submit is
\* rejected and leaves the result as it is
C20_Witness ==
    /\ arithmeticResult = Ymd(2024, 2, 28) /\ arithmeticOperation = "subtract"
    /\ dateArithmeticForm =
          [baseDate |-> Ymd(2024, 2, 29), operation |-> "subtract", days |-> Half(1)]

\* the form data for which the handler has no branch that computes a due
\* date: a method it does not know, no date in the field of the method, or
\* IVF with no embryo age
NoDueDateComputed(data) ==
    \/ data.calculationMethod \notin {"lmp", "conception", "ivf"}
    \/ data.calculationMethod = "lmp" /\ data.lastMenstrualPeriod = Undefined
    \/ data.calculationMethod = "conception" /\ data.conceptionDate = Undefined
    \/ data.calculationMethod = "ivf" /\ data.ivfTransferDate = Undefined
    \/ data.calculationMethod = "ivf" /\ data.ivfEmbryoAge = UndefinedEnum

\* C21: after handlePregnancyDueDateSubmit, dateDifferenceResult,
\* arithmeticResult, arithmeticOperation and ageResult are null whether or
\* not a due date was computed, whatever result was shown before; when no
\* due date is computed pregnancyDueDateResult is null too, so every result
\* is null.
C21_DueDateSubmitClearsResults ==
    op = "handlePregnancyDueDateSubmit" =>
        /\ dateDifferenceResult = Null
        /\ arithmeticResult = Null
        /\ arithmeticOperation = NullEnum
        /\ ageResult = Null
        /\ NoDueDateComputed(argB) <=> pregnancyDueDateResult = Null

\* an arithmetic result was shown, and the handler was called for IVF with
\* a transfer date and no embryo age
C21_Witness ==
    /\ op = "handlePregnancyDueDateSubmit"
    /\ argN = 3
    /\ argB.calculationMethod = "ivf" /\ argB.ivfEmbryoAge = UndefinedEnum
    /\ argB.ivfTransferDate = Ymd(2024, 1, 31)
    /\ NoResults

\* the date in the field the form shows for its method
ReferenceDateOf(form) ==
    CASE form.calculationMethod = "lmp" -> form.lastMenstrualPeriod
      [] form.calculationMethod = "conception" -> form.conceptionDate
      [] OTHER -> form.ivfTransferDate

\* the method a tag names, and the days the rule of a tag adds
MethodOfTag(tag) ==
    CASE tag = "LMP (Naegele's rule)" -> "lmp"
      [] tag = "conception date" -> "conception"
      [] tag \in {"IVF transfer date (Day-3 embryo)",
                  "IVF transfer date (Day-5 embryo)"} -> "ivf"
      [] OTHER -> "none"

OffsetOfTag(tag) ==
    CASE tag = "LMP (Naegele's rule)" -> 280
      [] tag = "conception date" -> 266
      [] tag = "IVF transfer date (Day-3 embryo)" -> 263
      [] tag = "IVF transfer date (Day-5 embryo)" -> 261
      [] OTHER -> 0

\* C22: a due date result is set only by a submit, and its tag then names
\* the rule that gave its date from the reference date of the form (LMP tag
\* iff plus 280, conception tag iff plus 266, Day-3 tag iff plus 263, Day-5
\* tag iff plus 261); while it is shown, the form still has the method of
\* the tag, whatever the user changes afterwards.
C22_TagNamesTheRuleUsed ==
    [][/\ (pregnancyDueDateResult' # Null
              /\ pregnancyDueDateResult' # pregnancyDueDateResult) =>
             /\ HandlePregnancyDueDateSubmit
             /\ IsDate(ReferenceDateOf(pregnancyDueDateForm))
             /\ DayNumber(pregnancyDueDateResult'.date)
                    - DayNumber(ReferenceDateOf(pregnancyDueDateForm))
                  = OffsetOfTag(pregnancyDueDateResult'.method)
             /\ OffsetOfTag(pregnancyDueDateResult'.method)
                  = RuleOffset(pregnancyDueDateForm)
       /\ pregnancyDueDateResult' # Null =>
             MethodOfTag(pregnancyDueDateResult'.method)
                = pregnancyDueDateForm'.calculationMethod]_vars

\* a due date was computed for a Day-3 embryo, and the embryo age of the
\* form was changed to day5 afterwards
C22_Witness ==
    /\ pregnancyDueDateResult =
          [date |-> Ymd(2024, 10, 20), method |-> "IVF transfer date (Day-3 embryo)"]
    /\ pregnancyDueDateForm.calculationMethod = "ivf"
    /\ pregnancyDueDateForm.ivfEmbryoAge = "day5"

\* a text of the form dd/dd/dddd that denotes a day of the calendar
DenotesDate(text) ==
    /\ IsFullText(text)
    /\ MonthOfText(text) \in 1 .. 12
    /\ YearOfText(text) > 0
    /\ DayOfText(text) \in 1 .. GregorianDaysIn(YearOfText(text), MonthOfText(text) - 1)

\* the white space of a text: WhiteSpace (TAB, VT, FF, SP, NBSP, ZWNBSP and
\* the space separators) and LineTerminator (LF, CR, LS, PS) of ECMAScript
SpaceSeparators ==
    {" ", "U+00A0", "U+1680", "U+202F", "U+205F", "U+3000"}
        \cup {"U+2000", "U+2001", "U+2002", "U+2003", "U+2004", "U+2005",
              "U+2006", "U+2007", "U+2008", "U+2009", "U+200A"}

BlankCharacters ==
    {"\t", "U+000B", "\f", "U+FEFF"} \cup SpaceSeparators
        \cup {"\n", "\r", "U+2028", "U+2029"}

\* the number written by the n digits of text that start at position from
NumberAt(text, from, n) ==
    LET D(k) == IF k <= n THEN DigitValue(text[from + n - k]) ELSE 0
    IN  D(1) + 10 * D(2) + 100 * D(3) + 1000 * D(4)

\* the text is a month of a digits, '/', a day of b digits, '/', a year of
\* c digits and then white space only, and they name a day of the calendar
ReadsWith(text, a, b, c) ==
    /\ Len(text) >= a + b + c + 2
    /\ \A i \in 1 .. a : IsDigit(text[i])
    /\ text[a + 1] = "/"
    /\ \A i \in a + 2 .. a + b + 1 : IsDigit(text[i])
    /\ text[a + b + 2] = "/"
    /\ \A i \in a + b + 3 .. a + b + c + 2 : IsDigit(text[i])
    /\ \A i \in a + b + c + 3 .. Len(text) : text[i] \in BlankCharacters
    /\ NumberAt(text, 1, a) \in 1 .. 12
    /\ NumberAt(text, a + b + 3, c) > 0
    /\ NumberAt(text, a + 2, b) \in
          1 .. GregorianDaysIn(NumberAt(text, a + b + 3, c), NumberAt(text, 1, a) - 1)

\* a text that reads as a date: one or two digits, '/', one or two digits,
\* '/', one to four digits, white space
ReadsAsDate(text) ==
    \E a \in 1 .. 2, b \in 1 .. 2, c \in 1 .. 4 : ReadsWith(text, a, b, c)

\* the typed texts that read as a date, and those that denote one in full
TextsReadAsDate == {text \in TextInputs : ReadsAsDate(text)}

TextsDenotingDate == {text \in TextInputs : DenotesDate(text)}

\* C23: handleInputChange calls onChange with a Date only for a text that
\* parses to a valid date and equals that date formatted as MM/dd/yyyy (a
\* fully typed, zero-padded date); for a text that parses and does not
\* round-trip it does not call onChange and the form value stays; for a
\* text that does not parse it calls onChange(undefined).  Which texts
\* parse is stated on the text itself (ReadsAsDate), also for a date
\* followed by white space of any kind.  (The steps that
\* end with handleInputChange as the last handler and leave the popover
\* as it is are the steps of handleInputChange.)
C23_OnChangeOnlyForRoundTrip ==
    [][op' = "handleInputChange" /\ UNCHANGED isPopoverOpen =>
          LET typedValue == argA'
              call == out'
          IN  /\ typedValue \in TextInputs
              /\ call \notin {Null, Undefined} <=> typedValue \in TextsDenotingDate
              /\ call \notin {Null, Undefined} =>
                    /\ call = parse(typedValue)
                    /\ format(call) = typedValue
                    /\ call = [year |-> YearOfText(typedValue),
                               month |-> MonthOfText(typedValue) - 1,
                               date |-> DayOfText(typedValue), hours |-> 0]
                    /\ dateDifferenceForm'.startDate = call
              /\ typedValue \in TextsReadAsDate \ TextsDenotingDate =>
                    /\ call = Null
                    /\ dateDifferenceForm'.startDate = dateDifferenceForm.startDate
              /\ typedValue \notin TextsReadAsDate =>
                    /\ call = Undefined
                    /\ dateDifferenceForm'.startDate = Undefined]_vars

\* 02/29/2024 followed by a no-break space typed while the field holds
\* 04/01/2024: it parses, it is not the formatted date, onChange is not
\* called and the field keeps its date
C23_Witness ==
    /\ op = "handleInputChange"
    /\ argA = <<"0", "2", "/", "2", "9", "/", "2", "0", "2", "4", "U+00A0">>
    /\ out = Null
    /\ dateDifferenceForm.startDate = Ymd(2024, 4, 1)
    /\ inputValue = argA

\* C24: a blur after keystrokes that started from a valid date and ended in
\* a typed text that is not empty and not a complete valid date leaves the
\* input showing the last valid date, formatted, and the form value equal
\* to that date.
C24_BlurRevertsToLastValid ==
    [][(/\ op = "handleInputChange" /\ op' = "handleInputBlur"
        /\ argB # Null
        /\ argA # <<>> /\ ~DenotesDate(argA)) =>
          /\ inputValue' = format(argB)
          /\ dateDifferenceForm'.startDate = argB]_vars

\* C25: at most one of dateDifferenceResult, arithmeticResult, ageResult
\* and pregnancyDueDateResult is non-null, after any sequence of submits
\* and method changes.
C25_AtMostOneResult ==
    Cardinality({i \in 1 .. 4 :
                    <<dateDifferenceResult, arithmeticResult, ageResult,
                      pregnancyDueDateResult>>[i] # Null}) <= 1

\* an age is shown alone, while the other three forms hold data that their
\* schemas accept
C25_Witness ==
    /\ ageResult # Null
    /\ dateDifferenceResult = Null /\ arithmeticResult = Null
    /\ pregnancyDueDateResult = Null
    /\ dateDifferenceSchema(dateDifferenceForm)
    /\ dateArithmeticSchema(dateArithmeticForm) /\ dateArithmeticForm.days = Num(1)
    /\ pregnancyDueDateSchema(pregnancyDueDateForm, now)

\* C26: arithmeticResult is non-null exactly when arithmeticOperation is;
\* the two change only together, by the arithmetic submit or by being
\* cleared; and a submit that sets them leaves the operation of the form
\* in arithmeticOperation and the base date moved by the days of the form
\* in that direction in arithmeticResult.
C26_OperationMatchesResult ==
    [][/\ arithmeticResult' # Null <=> arithmeticOperation' # NullEnum
       /\ <<arithmeticResult, arithmeticOperation>>'
              # <<arithmeticResult, arithmeticOperation>> =>
             \/ arithmeticResult' = Null /\ arithmeticOperation' = NullEnum
             \/ /\ HandleDateArithmeticSubmit
                /\ arithmeticOperation' = dateArithmeticForm.operation
                /\ DayNumber(arithmeticResult') - DayNumber(dateArithmeticForm.baseDate)
                     = (IF arithmeticOperation' = "add"
                        THEN dateArithmeticForm.days.number
                        ELSE 0 - dateArithmeticForm.days.number)]_vars

\* one day was subtracted, and the operation of the form was changed to
\* add afterwards
C26_Witness ==
    /\ arithmeticResult = Ymd(2024, 2, 28) /\ arithmeticOperation = "subtract"
    /\ dateArithmeticForm =
          [baseDate |-> Ymd(2024, 2, 29), operation |-> "add", days |-> Num(1)]

\* the form of a method: no date and no embryo age entered
EmptyFormOf(method) ==
    [calculationMethod |-> method, lastMenstrualPeriod |-> Undefined,
     conceptionDate |-> Undefined, ivfTransferDate |-> Undefined,
     ivfEmbryoAge |-> UndefinedEnum]

\* the fields of the methods the form does not show are empty
OtherFieldsEmpty(form) ==
    /\ form.calculationMethod # "lmp" => form.lastMenstrualPeriod = Undefined
    /\ form.calculationMethod # "conception" => form.conceptionDate = Undefined
    /\ form.calculationMethod # "ivf" =>
          form.ivfTransferDate = Undefined /\ form.ivfEmbryoAge = UndefinedEnum

\* C27: a change of method leaves the form with the new method and no
\* date and no embryo age, sets pregnancyDueDateResult to null and leaves
\* the other four results as they are; so the form never holds a date of
\* a method other than its own, and a due date is computed from the date
\* entered for the method of the form.
C27_MethodChangeResetsForm ==
    [][/\ pregnancyDueDateForm'.calculationMethod # pregnancyDueDateForm.calculationMethod =>
             /\ ChangeCalculationMethod
             /\ pregnancyDueDateForm' = EmptyFormOf(pregnancyDueDateForm'.calculationMethod)
             /\ pregnancyDueDateResult' = Null
             /\ UNCHANGED <<dateDifferenceResult, arithmeticResult, arithmeticOperation,
                            ageResult>>
       /\ OtherFieldsEmpty(pregnancyDueDateForm')
       /\ (pregnancyDueDateResult' # Null
              /\ pregnancyDueDateResult' # pregnancyDueDateResult) =>
             pregnancyDueDateResult' =
                 PregnancyDueDate(DueDateData(pregnancyDueDateForm.calculationMethod,
                                              pregnancyDueDateForm.ivfEmbryoAge,
                                              ReferenceDateOf(pregnancyDueDateForm)))]_vars

\* the method was changed to IVF while an arithmetic result was shown
C27_Witness ==
    /\ pregnancyDueDateForm = EmptyFormOf("ivf")
    /\ pregnancyDueDateResult = Null
    /\ arithmeticResult = Ymd(2024, 3, 1) /\ arithmeticOperation = "add"

\* C28: on the page without IVF, whenever a due date is shown the note
\* names the method it was computed with: the LMP note iff it is the last
\* menstrual period submitted plus 280 days, the conception note iff it is
\* the conception date submitted plus 266 days, also after the other
\* method is selected.
C28_NoteNamesMethodUsed ==
    mode = "pageTsx" /\ pregnancyDueDateResult # Null =>
        /\ PageNote(pregnancyDueDateForm) = "LMP (Naegele's rule)" <=>
              /\ argB.calculationMethod = "lmp"
              /\ pregnancyDueDateResult = addDays(argB.lastMenstrualPeriod, 280)
        /\ PageNote(pregnancyDueDateForm) = "conception date" <=>
              /\ argB.calculationMethod = "conception"
              /\ pregnancyDueDateResult = addDays(argB.conceptionDate, 266)

\* C29: after a keystroke, and until the input loses focus, the input
\* shows the text that was typed: handleInputChange never leaves another
\* text in the input, also when the text typed over a valid date does not
\* parse.
C29_InputShowsTypedText ==
    op = "handleInputChange" => inputValue = argA

\* C30: for a date of birth not after the current date the age is in
\* normal form: its years are the full years between the two dates, its
\* months are in 0..11 and its days in 0..30.
C30_AgeInNormalForm ==
    op = "age" /\ GetTime(argA) <= GetTime(argB) =>
        /\ out.years = differenceInYears(argB, argA)
        /\ out.years >= 0
        /\ out.months \in 0 .. 11
        /\ out.days \in 0 .. 30

====
